---- MODULE Spec2Model ----
(***************************************************************************)
(* Multihead cloze-template collation (DataCollatorForMHLM) and the value  *)
(* matcher of the generation loop of qlora.py / sample.py.                 *)
(*                                                                         *)
(* Strings are sequences of symbols: a symbol is a word, a blank " " or a  *)
(* special-token text.  The tokenizer is word level: blanks produce no     *)
(* token, every other symbol produces its vocabulary id.  1-D tensors are  *)
(* sequences of integers, 2-D tensors are sequences of rows; where the     *)
(* rank of a tensor matters (get_templates) a tensor is a record           *)
(* [shape, data].                                                          *)
(***************************************************************************)
EXTENDS Integers, Sequences, FiniteSets, TLC

VARIABLES pc, prompt, vocab_masks, max_column_len, self, templ, instances, data_dict,
          gen_span, options_str, pred,
          num_heads, asserted,
          script, real, inputs, batch, col, batch_col_toks, preds, disk, generated,
          error,
          dataset_name, listdir, full_dataset,
          exists, args, data_module,
          fs, state, final_save

collator_vars == <<prompt, vocab_masks, max_column_len, self, templ, instances, data_dict>>
match_vars == <<gen_span, options_str, pred>>
config_vars == <<num_heads, asserted>>
sample_vars == <<script, real, inputs, batch, col, batch_col_toks, preds, disk,
                 generated, error>>
dataset_vars == <<dataset_name, listdir, full_dataset>>
module_vars == <<exists, args, data_module>>
callback_vars == <<fs, state, final_save>>
vars == <<pc, prompt, vocab_masks, max_column_len, self, templ, instances, data_dict,
          gen_span, options_str, pred, num_heads, asserted,
          script, real, inputs, batch, col, batch_col_toks, preds, disk, generated,
          error,
          dataset_name, listdir, full_dataset, exists, args, data_module,
          fs, state, final_save>>

----------------------------------------------------------------------------
(* Bounds *)
MaxCols == 2
MaxColumnLen == 3
MaxBatch == 2
MaxOptions == 3

----------------------------------------------------------------------------
(* Tokenizer *)
bos_token == "<s>"
eos_token == "</s>"
cls_token == "<col>"
pad_token_id == 0

TokId(sym) ==
    CASE sym = "Hello" -> 1
      [] sym = "color" -> 2
      [] sym = "end"   -> 3
      [] sym = cls_token -> 4
      [] sym = bos_token -> 5
      [] sym = eos_token -> 6
      [] sym = "RED"   -> 7
      [] sym = "BLUE"  -> 8
      [] sym = "DARK"  -> 14

bos_token_id == TokId(bos_token)

RECURSIVE lstrip(_)
lstrip(s) == IF s # <<>> /\ Head(s) = " " THEN lstrip(Tail(s)) ELSE s

RECURSIVE rstrip(_)
rstrip(s) ==
    IF s # <<>> /\ s[Len(s)] = " " THEN rstrip(SubSeq(s, 1, Len(s) - 1)) ELSE s

strip(s) == rstrip(lstrip(s))

\* tokenizer(text, add_special_tokens=False)['input_ids']
RECURSIVE tokenizer(_)
tokenizer(s) ==
    IF s = <<>> THEN <<>>
    ELSE IF Head(s) = " " THEN tokenizer(Tail(s))
         ELSE <<TokId(Head(s))>> \o tokenizer(Tail(s))

\* pads to n but keeps the tokens beyond n
pad_without_truncation(toks, n) ==
    [j \in 1..(IF Len(toks) > n THEN Len(toks) ELSE n) |->
        IF j <= Len(toks) THEN toks[j] ELSE pad_token_id]

\* padding='max_length', max_length=n, truncation=True, padding_side="right"
pad_max_length(toks, n) ==
    [j \in 1..n |-> IF j <= Len(toks) THEN toks[j] ELSE pad_token_id]

\* the value tokenized with add_special_tokens=True: BOS comes first
tokenizer_padded_special(s, n) == pad_max_length(<<bos_token_id>> \o tokenizer(s), n)

tokenizer_padded(s, n) == pad_max_length(tokenizer(s), n)

----------------------------------------------------------------------------
(* Input domains *)
\* the literal text of chunk i when it has one; a chunk may also be empty
ChunkTexts == << <<"Hello", " ">>, <<" ", "color", " ">>, <<" ", "end">>,
                 <<" ", "Hello", "end">> >>
ChunkText(i) == ChunkTexts[((i - 1) % Len(ChunkTexts)) + 1]

\* the distinct cell values of the reference table, by increasing token count
CellValues == << <<"RED">>, <<"BLUE", "RED">>, <<"RED", "BLUE", "DARK">> >>

OptionValues == { <<"RED">>, <<"BLUE">>, <<"DARK">>, <<"RED", "BLUE">> }

SpanTokens == {pad_token_id, TokId("RED"), TokId("BLUE"), TokId("DARK")}

PromptLists ==
    UNION { { [i \in 1..(n + 1) |-> IF i \in E THEN <<>> ELSE ChunkText(i)] :
              E \in SUBSET (1..(n + 1)) } : n \in 1..MaxCols }

\* dataset['vocab_masks']: for each of the n columns its admissibility vector
\* over the vocabulary, entries 0 and 1; table g differs from table g + 1 and
\* its columns differ from each other
VocabSize == 3
MaskTable(n, g) ==
    [k \in 1..n |-> [v \in 1..VocabSize |-> IF (v + k + g) % 3 = 0 THEN 0 ELSE 1]]
MaskTables(n) == { MaskTable(n, g) : g \in 1..3 }

\* labeled records {col_1..col_n, length}: record s holds the cell values in
\* rotation s, so its columns differ from each other and from the other records
Records(n) ==
    { [length |-> 0,
       cols |-> [k \in 1..n |-> CellValues[((s + k) % Len(CellValues)) + 1]]] :
      s \in 1..Len(CellValues) }

LabeledBatches(n) == UNION { [1..b -> Records(n)] : b \in 1..MaxBatch }

SeedBatches ==
    { [r \in 1..b |-> [length |-> 0, cols |-> <<>>]] : b \in 1..MaxBatch }

\* batches that hold both labeled records and seed records, in any order
MixedBatches(n) ==
    LET seed == [length |-> 0, cols |-> <<>>]
        rec == CHOOSE r \in Records(n) : r.cols[1] = CellValues[1]
    IN  UNION { { inst \in [1..b -> {seed, rec}] :
                    /\ \E r \in 1..b : inst[r] = seed
                    /\ \E r \in 1..b : inst[r] = rec } : b \in 2..MaxBatch }

----------------------------------------------------------------------------
(* Small helpers on sequences *)
RECURSIVE Flatten(_)
Flatten(ss) == IF ss = <<>> THEN <<>> ELSE Head(ss) \o Flatten(Tail(ss))

RECURSIVE SumLen(_)
SumLen(ss) == IF ss = <<>> THEN 0 ELSE Len(Head(ss)) + SumLen(Tail(ss))

zeros_like(t) == [j \in 1..Len(t) |-> 0]
ones_like(m) == [b \in 1..Len(m) |-> [j \in 1..Len(m[b]) |-> 1]]

----------------------------------------------------------------------------
(* DataCollatorForMHLM.__init__ *)

\* the separator appended to the chunk before each column slot instead
SuffixCls(p) ==
    [i \in 1..Len(p) |-> IF i < Len(p) THEN strip(p[i] \o <<cls_token>>) ELSE p[i]]

\* the in-place rewriting of the caller's chunk list
PrefixCls(p) ==
    [i \in 1..Len(p) |-> IF i >= 2 THEN strip(<<cls_token>> \o p[i]) ELSE p[i]]
PrefixBos(p) == [p EXCEPT ![1] = strip(<<bos_token>> \o p[1])]
SuffixEos(p) == [p EXCEPT ![Len(p)] = p[Len(p)] \o <<eos_token>>]
mark_prompt(p) == SuffixEos(PrefixBos(PrefixCls(p)))

make_prompt_ids(p) == [i \in 1..Len(p) |-> tokenizer(p[i])]

make_prompt_head_inds(ids) ==
    LET z == [i \in 1..Len(ids) |-> zeros_like(ids[i])]
    IN  [z EXCEPT ![1] = Tail(z[1])]

NoCollator == [tag |-> "none"]

\* pd.DataFrame(vocab_masks[:]): one column per key, one row per vocabulary entry
DataFrame(vm) ==
    [v \in 1..(IF vm = <<>> THEN 0 ELSE Len(vm[1])) |-> [k \in 1..Len(vm) |-> vm[k][v]]]

\* the table as it is, rows and columns not exchanged
not_transposed(m) == m

\* .to_numpy().T
transposed(m) ==
    [k \in 1..(IF m = <<>> THEN 0 ELSE Len(m[1])) |-> [v \in 1..Len(m) |-> m[v][k]]]

\* torch.as_tensor(..., dtype=torch.bool): every nonzero entry is True
as_bool(m) == [r \in 1..Len(m) |-> [c \in 1..Len(m[r]) |-> m[r][c] # 0]]

make_vocab_masks(vm) == as_bool(transposed(DataFrame(vm)))

new_collator(p, mcl, vm) ==
    LET marked == mark_prompt(p)
        ids == make_prompt_ids(marked)
    IN  [tag |-> "collator",
         num_cols |-> Len(p) - 1,
         max_column_len |-> mcl,
         prompt_ids |-> ids,
         prompt_head_inds |-> make_prompt_head_inds(ids),
         col_tok |-> tokenizer(<<cls_token>>)[1],
         vocab_masks |-> make_vocab_masks(vm)]

----------------------------------------------------------------------------
(* Tensors with an explicit shape, as far as get_templates needs them *)
vec(data) == [shape |-> <<Len(data)>>, data |-> data]

\* the repeat along the other dimension: every row is 1..n cycled
arange_rows_transposed(n, m) ==
    [shape |-> <<n, m>>,
     data |-> [j \in 1..(n * m) |-> ((j - 1) % n) + 1]]

\* torch.arange(1, n+1).unsqueeze(1).repeat(1, m): shape (n, m), row k is k..k
arange_rows(n, m) ==
    [shape |-> <<n, m>>,
     data |-> [j \in 1..(n * m) |-> ((j - 1) \div m) + 1]]

\* torch.split(t, 1): one tensor of shape (1, m) per row of a 2-D tensor
split_rows(t) ==
    LET m == t.shape[2]
    IN  [k \in 1..t.shape[1] |->
            [shape |-> <<1, m>>,
             data |-> SubSeq(t.data, (k - 1) * m + 1, k * m)]]

\* Tensor.squeeze(): every dimension of size 1 is removed
squeeze(t) ==
    [shape |-> SelectSeq(t.shape, LAMBDA d : d # 1), data |-> t.data]

\* torch.cat of a list of tensors along dim 0: rejects 0-dimensional tensors
cat_ok(ts) == \A i \in 1..Len(ts) : Len(ts[i].shape) = 1
cat_data(ts) == Flatten([i \in 1..Len(ts) |-> ts[i].data])

\* the pairs the other way round: [be, ae]
RECURSIVE intersperse_swapped(_, _)
intersperse_swapped(a, b) ==
    IF a = <<>> \/ b = <<>> THEN <<>>
    ELSE <<Head(b), Head(a)>> \o intersperse_swapped(Tail(a), Tail(b))

\* sum(([ae,be] for ae,be in zip(a, b)), [])
RECURSIVE intersperse(_, _)
intersperse(a, b) ==
    IF a = <<>> \/ b = <<>> THEN <<>>
    ELSE <<Head(a), Head(b)>> \o intersperse(Tail(a), Tail(b))

\* torch.where(t == 0)[0], 1-based
RECURSIVE where_zero_from(_, _)
where_zero_from(t, j) ==
    IF j > Len(t) THEN <<>>
    ELSE (IF t[j] = 0 THEN <<j>> ELSE <<>>) \o where_zero_from(t, j + 1)
where_zero(t) == where_zero_from(t, 1)

\* writes the source back to front
RECURSIVE index_put_reversed(_, _, _)
index_put_reversed(t, idx, src) ==
    IF idx = <<>> THEN t
    ELSE index_put_reversed([t EXCEPT ![Head(idx)] = src[Len(src)]],
                            Tail(idx), SubSeq(src, 1, Len(src) - 1))

\* t[idx] = src for an index list idx and a source of the same length
RECURSIVE index_put(_, _, _)
index_put(t, idx, src) ==
    IF idx = <<>> THEN t
    ELSE index_put([t EXCEPT ![Head(idx)] = Head(src)], Tail(idx), Tail(src))

(* DataCollatorForMHLM.get_templates *)
col_head_inds(c) ==
    LET rows == split_rows(arange_rows(c.num_cols, c.max_column_len))
    IN  [k \in 1..Len(rows) |-> squeeze(rows[k])]

head_inds_parts(c) ==
    LET phi == [i \in 1..Len(c.prompt_head_inds) |-> vec(c.prompt_head_inds[i])]
    IN  intersperse(phi, col_head_inds(c)) \o <<phi[Len(phi)]>>

NoTemplates == [tag |-> "none"]

get_templates(c) ==
    LET parts == head_inds_parts(c) IN
    IF ~cat_ok(parts) THEN [tag |-> "RuntimeError"]
    ELSE LET head_inds == cat_data(parts)
             idx == where_zero(head_inds)
             src == Tail(Flatten(c.prompt_ids))
         IN  IF Len(idx) # Len(src) THEN [tag |-> "RuntimeError"]
             ELSE [tag |-> "ok",
                   head_inds |-> head_inds,
                   prompt_template |-> index_put(zeros_like(head_inds), idx, src),
                   vocab_masks |-> c.vocab_masks,
                   max_column_len |-> c.max_column_len]

----------------------------------------------------------------------------
(* DataCollatorForMHLM.__call__ *)
NoBatch == [tag |-> "none"]

\* the cell pandas gives a record for a column the record does not have
NaN == <<"nan">>

\* the data columns of pd.DataFrame(instances): the union over the records
data_columns(inst) ==
    CHOOSE w \in { Len(inst[b].cols) : b \in 1..Len(inst) } :
        \A b \in 1..Len(inst) : Len(inst[b].cols) <= w

\* the columns counted on the first record only
num_columns_first(inst) == 1 + Len(inst[1].cols)

\* len(pd.DataFrame(instances).columns): `length` and the data columns
num_columns(inst) == 1 + data_columns(inst)

\* instances.drop('length').values.reshape((1,-1))[0].tolist(), row major
flat_values(inst) ==
    Flatten([b \in 1..Len(inst) |->
                [k \in 1..data_columns(inst) |->
                    IF k <= Len(inst[b].cols) THEN inst[b].cols[k] ELSE NaN]])

\* the slow tokenizer accepts a batch only of strings: a first element that
\* is no string fails _is_valid_text_input, a later one fails get_input_ids
tokenizer_rejects(flat) == \E r \in 1..Len(flat) : flat[r] = NaN

\* targets['input_ids']: (batch_size * num_cols) x max_column_len
targets_ids(c, inst) ==
    LET flat == flat_values(inst)
    IN  [r \in 1..Len(flat) |-> tokenizer_padded(flat[r], c.max_column_len)]

\* the flat list read column major
targets_tok_column_major(c, inst) ==
    LET t == targets_ids(c, inst)
    IN  [b \in 1..Len(inst) |->
            [i \in 1..c.num_cols |-> t[(i - 1) * Len(inst) + b]]]

\* .reshape((batch_size, num_cols, max_column_len))
targets_tok(c, inst) ==
    LET t == targets_ids(c, inst)
    IN  [b \in 1..Len(inst) |->
            [i \in 1..c.num_cols |-> t[(b - 1) * c.num_cols + i]]]

\* each column span placed before its chunk instead of after it
labels_row_span_first(c, tt, b) ==
    Flatten(Flatten([i \in 1..c.num_cols |-> <<tt[b][i], c.prompt_ids[i]>>])
            \o <<c.prompt_ids[Len(c.prompt_ids)]>>)

labels_row(c, tt, b) ==
    Flatten(Flatten([i \in 1..c.num_cols |-> <<c.prompt_ids[i], tt[b][i]>>])
            \o <<c.prompt_ids[Len(c.prompt_ids)]>>)

collate_labeled(c, inst) ==
    IF tokenizer_rejects(flat_values(inst)) THEN [tag |-> "ValueError"]
    ELSE LET tt == targets_tok(c, inst)
             labels == [b \in 1..Len(inst) |-> labels_row(c, tt, b)]
         IN  [tag |-> "labeled",
              input_ids |-> labels,
              attention_mask |-> ones_like(labels),
              labels |-> labels]

\* whether the call compares labels.shape[1]-1 with the head-index length: the
\* only such comparison is the assert of the source, which is a comment
alignment_asserted(c, inst) == FALSE

collate_seed(c, inst) ==
    IF Len(c.prompt_ids[1]) < 2 THEN [tag |-> "IndexError"]
    ELSE LET input_ids == [b \in 1..Len(inst) |-> <<bos_token_id, c.prompt_ids[1][2]>>]
         IN  [tag |-> "seed",
              input_ids |-> input_ids,
              attention_mask |-> ones_like(input_ids)]

collate(c, inst) ==
    IF num_columns(inst) > 1 THEN collate_labeled(c, inst) ELSE collate_seed(c, inst)

----------------------------------------------------------------------------
(* Value matcher of the generation loop *)
dot(a, b) == LET RECURSIVE acc(_)
                 acc(j) == IF j = 0 THEN 0 ELSE a[j] * b[j] + acc(j - 1)
             IN  acc(Len(a))

\* cosine_similarity(x, y)[0][0] as the exact fraction num/den of its square
\* times |x|^2: the entries are token ids (>= 0), so for one span x this orders
\* the candidates y exactly as the cosine does; a zero row has similarity 0
sim2(x, y) ==
    IF dot(x, x) = 0 \/ dot(y, y) = 0 THEN <<0, 1>>
    ELSE <<dot(x, y) * dot(x, y), dot(y, y)>>

sim_gt(p, q) == p[1] * q[2] > q[1] * p[2]

\* the last index that holds the maximum
RECURSIVE argmax_last_from(_, _, _)
argmax_last_from(sims, best, j) ==
    IF j > Len(sims) THEN best
    ELSE argmax_last_from(sims, IF sim_gt(sims[best], sims[j]) THEN best ELSE j, j + 1)

\* numpy argmax: the first index that holds the maximum
RECURSIVE argmax_from(_, _, _)
argmax_from(sims, best, j) ==
    IF j > Len(sims) THEN best
    ELSE argmax_from(sims, IF sim_gt(sims[j], sims[best]) THEN j ELSE best, j + 1)
argmax(sims) == argmax_from(sims, 1, 2)

options_tok(opts, mcl) == [i \in 1..Len(opts) |-> tokenizer_padded(opts[i], mcl)]

\* options_str[cosine_similarity(span, options).argmax()]; the options and the
\* similarities are arrays computed once, hence bound variables holding
\* sequences (x \o <<>> is the sequence x written out)
match(span, opts, mcl) ==
    CHOOSE p \in
        { opts[argmax(sims)] :
            sims \in { [i \in 1..Len(options) |-> sim2(span, options[i])] \o <<>> :
                       options \in { [i \in 1..Len(opts) |->
                                        options_tok(opts, mcl)[i] \o <<>>] \o <<>> } } } : TRUE

----------------------------------------------------------------------------
(* Injective sequences over a set: the result of Series.unique() *)
UniqueSeqs(S, n) ==
    UNION { {s \in [1..k -> S] : \A i, j \in 1..k : i # j => s[i] # s[j]} : k \in 1..n }

NoPred == <<"none">>

NoTable == <<>>

\* the parts of the state a run does not touch
CollatorIdle ==
    /\ prompt = <<>>
    /\ vocab_masks = <<>>
    /\ self = NoCollator
    /\ templ = NoTemplates
    /\ instances = <<>>
    /\ data_dict = NoBatch
    /\ num_heads = 0
    /\ asserted = FALSE

MatchIdle ==
    /\ gen_span = <<>>
    /\ options_str = <<>>
    /\ pred = NoPred

SampleIdle ==
    /\ script = "none"
    /\ real = <<>>
    /\ inputs = NoBatch
    /\ batch = 0
    /\ col = 0
    /\ batch_col_toks = <<>>
    /\ preds = <<>>
    /\ disk = NoTable
    /\ generated = <<>>
    /\ error = "none"

DatasetIdle ==
    /\ dataset_name = <<>>
    /\ listdir = {}
    /\ full_dataset = [tag |-> "none"]

ModuleIdle ==
    /\ exists = TRUE
    /\ args = [do_train |-> FALSE]
    /\ data_module = [tag |-> "none"]

CallbackIdle ==
    /\ fs = {}
    /\ state = [global_step |-> 0, best_model_checkpoint |-> 0]
    /\ final_save = "none"

(* Specification of the collator *)
Init ==
    /\ pc = "new"
    /\ prompt \in PromptLists
    /\ vocab_masks = MaskTable(Len(prompt) - 1, 1)
    /\ max_column_len \in 1..MaxColumnLen
    /\ self = NoCollator
    /\ templ = NoTemplates
    /\ instances = <<>>
    /\ data_dict = NoBatch
    /\ num_heads = Len(prompt)
    /\ asserted = FALSE
    /\ MatchIdle /\ SampleIdle /\ DatasetIdle /\ ModuleIdle /\ CallbackIdle

Construct ==
    /\ pc = "new"
    /\ self' = new_collator(prompt, max_column_len, vocab_masks)
    /\ prompt' = mark_prompt(prompt)
    /\ pc' = "ready"
    /\ UNCHANGED <<vocab_masks, max_column_len, templ, instances, data_dict>>
    /\ UNCHANGED <<match_vars, config_vars, sample_vars, dataset_vars, module_vars, callback_vars>>

\* get_templates dropping the BOS position of prompt_head_inds[0] itself
GetTemplatesDroppingBos ==
    /\ pc = "ready"
    /\ templ' = get_templates(self)
    /\ self' = [self EXCEPT !.prompt_head_inds[1] = IF @ = <<>> THEN @ ELSE Tail(@)]
    /\ UNCHANGED <<pc, prompt, vocab_masks, max_column_len, instances, data_dict>>
    /\ UNCHANGED <<match_vars, config_vars, sample_vars, dataset_vars, module_vars, callback_vars>>

GetTemplates ==
    /\ pc = "ready"
    /\ templ' = get_templates(self)
    /\ UNCHANGED <<pc, prompt, vocab_masks, max_column_len, self, instances, data_dict>>
    /\ UNCHANGED <<match_vars, config_vars, sample_vars, dataset_vars, module_vars, callback_vars>>

CollateLabeled ==
    /\ pc = "ready"
    /\ \E inst \in LabeledBatches(self.num_cols) :
          /\ instances' = inst
          /\ data_dict' = collate(self, inst)
          /\ asserted' = alignment_asserted(self, inst)
    /\ UNCHANGED <<pc, prompt, vocab_masks, max_column_len, self, templ, num_heads>>
    /\ UNCHANGED <<match_vars, sample_vars, dataset_vars, module_vars, callback_vars>>

CollateSeed ==
    /\ pc = "ready"
    /\ \E inst \in SeedBatches :
          /\ instances' = inst
          /\ data_dict' = collate(self, inst)
          /\ asserted' = alignment_asserted(self, inst)
    /\ UNCHANGED <<pc, prompt, vocab_masks, max_column_len, self, templ, num_heads>>
    /\ UNCHANGED <<match_vars, sample_vars, dataset_vars, module_vars, callback_vars>>

CollateMixed ==
    /\ pc = "ready"
    /\ \E inst \in MixedBatches(self.num_cols) :
          /\ instances' = inst
          /\ data_dict' = collate(self, inst)
          /\ asserted' = alignment_asserted(self, inst)
    /\ UNCHANGED <<pc, prompt, vocab_masks, max_column_len, self, templ, num_heads>>
    /\ UNCHANGED <<match_vars, sample_vars, dataset_vars, module_vars, callback_vars>>

Next == Construct \/ GetTemplates \/ CollateLabeled \/ CollateSeed \/ CollateMixed

Spec == Init /\ [][Next]_vars

(* Specification of the template build alone: args.num_heads is set on the
   command line, the prompt comes with the dataset, and nothing ties them *)
InitBuild ==
    /\ pc = "new"
    /\ prompt \in PromptLists
    /\ vocab_masks \in MaskTables(Len(prompt) - 1)
    /\ max_column_len \in 1..MaxColumnLen
    /\ self = NoCollator
    /\ templ = NoTemplates
    /\ instances = <<>>
    /\ data_dict = NoBatch
    /\ num_heads \in 1..(MaxCols + 1)
    /\ asserted = FALSE
    /\ MatchIdle /\ SampleIdle /\ DatasetIdle /\ ModuleIdle /\ CallbackIdle

NextBuild == Construct \/ GetTemplates

SpecBuild == InitBuild /\ [][NextBuild]_vars

(* Specification of a repeated construction: a second collator built from the
   list object the first one was built from *)
ConstructAgain ==
    /\ pc = "ready"
    /\ self' = new_collator(prompt, max_column_len, vocab_masks)
    /\ prompt' = mark_prompt(prompt)
    /\ pc' = "rebuilt"
    /\ UNCHANGED <<vocab_masks, max_column_len, templ, instances, data_dict>>
    /\ UNCHANGED <<match_vars, config_vars, sample_vars, dataset_vars, module_vars,
                   callback_vars>>

NextRepeat == Construct \/ GetTemplates \/ ConstructAgain

SpecRepeat == Init /\ [][NextRepeat]_vars

(* Specification of the value matcher: one generated span, one column *)
InitMatch ==
    /\ pc = "generated"
    /\ max_column_len \in 1..MaxColumnLen
    /\ CollatorIdle /\ SampleIdle /\ DatasetIdle /\ ModuleIdle /\ CallbackIdle
    /\ gen_span \in [1..max_column_len -> SpanTokens]
    /\ options_str \in UniqueSeqs(OptionValues, MaxOptions)
    /\ pred = NoPred

Match ==
    /\ pc = "generated"
    /\ pred' = match(gen_span, options_str, max_column_len)
    /\ pc' = "matched"
    /\ UNCHANGED <<gen_span, options_str>>
    /\ UNCHANGED <<collator_vars, config_vars, sample_vars, dataset_vars, module_vars, callback_vars>>

NextMatch == Match

SpecMatch == InitMatch /\ [][NextMatch]_vars

----------------------------------------------------------------------------
(* Properties of the collator, under Spec *)

Labeled == data_dict.tag = "labeled"
SeedCalled == data_dict.tag \in {"seed", "IndexError"}
TemplatesCalled == templ.tag # "none"
TemplatesOk == templ.tag = "ok"

\* number of positions before p that carry head index k
CountBefore(h, p, k) == Cardinality({q \in 1..(p - 1) : h[q] = k})

\* the padded token span of record b's column k
ValueSpan(b, k) == tokenizer_padded(instances[b].cols[k], self.max_column_len)

\* the literal tokens: the chunks concatenated, the leading BOS dropped
LiteralTokens == Tail(Flatten(self.prompt_ids))

\* first position (1-based) of column k's span in a row of labels
SpanStart(k) ==
    SumLen(SubSeq(self.prompt_ids, 1, k)) + (k - 1) * self.max_column_len + 1

AllValuesFit ==
    \A b \in 1..Len(instances) : \A k \in 1..Len(instances[b].cols) :
        Len(tokenizer(instances[b].cols[k])) <= self.max_column_len

DistinctCells ==
    /\ Len(instances) >= 2 /\ self.num_cols >= 2
    /\ instances[1] # instances[2]
    /\ instances[1].cols[1] # instances[1].cols[2]

\* C1: whenever a labeled batch has been collated and get_templates has been
\* called on the same collator, get_templates returned a tuple and every row
\* of input_ids is exactly one token longer than head_inds.
C1_InputLengthMatchesHeadInds ==
    (Labeled /\ TemplatesCalled) =>
        /\ TemplatesOk
        /\ \A b \in 1..Len(data_dict.input_ids) :
              Len(data_dict.input_ids[b]) - 1 = Len(templ.head_inds)

\* C2: for every row b and every position p of head_inds, the label at the
\* position after p is, when head_inds[p] = k > 0, the token of record b's
\* column-k span at the offset given by the number of earlier positions with
\* head index k, and, when head_inds[p] = 0, the prompt_template token at p.
C2_PositionAlignment ==
    (Labeled /\ TemplatesOk) =>
        \A b \in 1..Len(data_dict.labels) :
            /\ Len(data_dict.labels[b]) - 1 = Len(templ.head_inds)
            /\ \A p \in 1..Len(templ.head_inds) :
                  LET k == templ.head_inds[p] IN
                  IF k > 0
                  THEN /\ k \in 1..self.num_cols
                       /\ CountBefore(templ.head_inds, p, k) < self.max_column_len
                       /\ data_dict.labels[b][p + 1] =
                            ValueSpan(b, k)[CountBefore(templ.head_inds, p, k) + 1]
                  ELSE data_dict.labels[b][p + 1] = templ.prompt_template[p]

C2_Witness ==
    Labeled /\ TemplatesOk /\ DistinctCells /\ self.max_column_len >= 2

\* C3: every call of get_templates returns head_inds and prompt_template of
\* the same length, the sum of the chunk token lengths plus
\* num_cols * max_column_len minus 1, for every max_column_len >= 1.
C3_TemplateLength ==
    TemplatesCalled =>
        /\ TemplatesOk
        /\ Len(templ.head_inds) = Len(templ.prompt_template)
        /\ Len(templ.head_inds) =
              SumLen(self.prompt_ids) + self.num_cols * self.max_column_len - 1

\* C4: in a returned tuple the positions with head index 0 are exactly the
\* positions holding the literal tokens (in order, the r-th such position
\* holds the r-th token of the concatenated chunks without the leading BOS),
\* every other position has a head index in 1..num_cols and template value 0,
\* and every column 1..num_cols has positions of its own.
C4_ZeroIffLiteral ==
    TemplatesOk =>
        /\ Cardinality({i \in 1..Len(templ.head_inds) : templ.head_inds[i] = 0})
              = Len(LiteralTokens)
        /\ \A i \in 1..Len(templ.head_inds) :
              IF templ.head_inds[i] = 0
              THEN templ.prompt_template[i] =
                      LiteralTokens[CountBefore(templ.head_inds, i, 0) + 1]
              ELSE /\ templ.head_inds[i] \in 1..self.num_cols
                   /\ templ.prompt_template[i] = 0
        /\ \A k \in 1..self.num_cols :
              \E i \in 1..Len(templ.head_inds) : templ.head_inds[i] = k

C4_Witness ==
    /\ TemplatesOk /\ self.num_cols >= 2
    /\ \E i, j \in 1..Len(templ.head_inds) :
          /\ i < j /\ templ.head_inds[i] = 1 /\ templ.head_inds[j] = 0
          /\ templ.prompt_template[j] # templ.prompt_template[1]

\* C5: when no value of the batch is truncated, cutting row b of labels at
\* the fixed boundaries gives, for column k, the padded token span of record
\* b's column-k value.
C5_RoundTrip ==
    (Labeled /\ AllValuesFit) =>
        \A b \in 1..Len(instances) : \A k \in 1..self.num_cols :
            SubSeq(data_dict.labels[b], SpanStart(k),
                   SpanStart(k) + self.max_column_len - 1) = ValueSpan(b, k)

C5_Witness == Labeled /\ AllValuesFit /\ DistinctCells

\* C6 as claimed: chunk 0 starts with BOS, each chunk before a column slot
\* (chunks 0..N-1) ends with the column separator, chunk N ends with EOS.
C6_SeparatorSuffix ==
    pc = "ready" =>
        /\ Head(prompt[1]) = bos_token /\ Head(self.prompt_ids[1]) = bos_token_id
        /\ \A i \in 1..self.num_cols :
              /\ prompt[i][Len(prompt[i])] = cls_token
              /\ self.prompt_ids[i][Len(self.prompt_ids[i])] = self.col_tok
        /\ prompt[Len(prompt)][Len(prompt[Len(prompt)])] = eos_token
        /\ self.prompt_ids[Len(prompt)][Len(self.prompt_ids[Len(prompt)])]
              = TokId(eos_token)

\* C6 as amended: chunk 0 starts with BOS, each chunk after a column slot
\* (chunks 1..N) starts with the column separator, chunk N ends with EOS.
C6_SeparatorPrefix ==
    pc = "ready" =>
        /\ Head(prompt[1]) = bos_token /\ Head(self.prompt_ids[1]) = bos_token_id
        /\ \A i \in 2..(self.num_cols + 1) :
              /\ Head(prompt[i]) = cls_token
              /\ Head(self.prompt_ids[i]) = self.col_tok
        /\ prompt[Len(prompt)][Len(prompt[Len(prompt)])] = eos_token
        /\ self.prompt_ids[Len(prompt)][Len(self.prompt_ids[Len(prompt)])]
              = TokId(eos_token)

C6_Witness ==
    /\ pc = "ready" /\ self.num_cols >= 2
    /\ \A i \in 1..Len(prompt) : Len(self.prompt_ids[i]) >= 2

\* C7: a labeled batch of B records gives B rows of labels, each of length
\* sum of chunk token lengths + num_cols * max_column_len, input_ids equal
\* to labels and an attention_mask of the same shape holding only ones.
C7_LabeledShapes ==
    Labeled =>
        /\ Len(data_dict.labels) = Len(instances)
        /\ \A b \in 1..Len(data_dict.labels) :
              /\ Len(data_dict.labels[b]) =
                    SumLen(self.prompt_ids) + self.num_cols * self.max_column_len
              /\ Len(data_dict.attention_mask[b]) = Len(data_dict.labels[b])
              /\ \A j \in 1..Len(data_dict.labels[b]) :
                    data_dict.attention_mask[b][j] = 1
        /\ Len(data_dict.attention_mask) = Len(data_dict.labels)
        /\ data_dict.input_ids = data_dict.labels

C7_Witness ==
    /\ Labeled /\ Len(instances) >= 2
    /\ \E b \in 1..Len(instances) : \E k \in 1..self.num_cols :
          Len(tokenizer(instances[b].cols[k])) > self.max_column_len

\* C8: every collate call on a batch of B generation-seed records returns
\* B rows [BOS id, second token of chunk 0], an all-ones attention_mask of
\* the same shape and no labels, whatever the prompt template.
C8_SeedBatch ==
    SeedCalled =>
        /\ data_dict.tag = "seed"
        /\ "labels" \notin DOMAIN data_dict
        /\ Len(data_dict.input_ids) = Len(instances)
        /\ \A b \in 1..Len(data_dict.input_ids) :
              /\ data_dict.input_ids[b] = <<bos_token_id, self.prompt_ids[1][2]>>
              /\ data_dict.attention_mask[b] = <<1, 1>>
        /\ Len(data_dict.attention_mask) = Len(instances)

\* a batch that holds a labeled record and a seed record
Mixed(inst) ==
    /\ \E b \in 1..Len(inst) : inst[b].cols = <<>>
    /\ \E b \in 1..Len(inst) : inst[b].cols # <<>>

\* C15: every collate call on a batch that mixes labeled and seed records
\* fails with a ValueError and returns no batch.
C15_MixedBatchRaises ==
    (pc = "ready" /\ Mixed(instances)) => data_dict = [tag |-> "ValueError"]

C15_Witness ==
    /\ pc = "ready" /\ Mixed(instances)
    /\ instances[1].cols = <<>>
    /\ data_dict.tag = "ValueError"

\* the configured column count: head 0 serves the literal positions, heads
\* 1..N the columns
configured_cols == num_heads - 1

\* C16: when the number of prompt chunks is not the configured column count
\* plus one, or some chunk has no tokens, no collator is built and no
\* head_inds/prompt_template tuple is produced. (Under SpecBuild.)
C16_BadTemplateRejected ==
    (\/ Len(prompt) # configured_cols + 1
     \/ (self # NoCollator /\ \E i \in 1..Len(self.prompt_ids) : self.prompt_ids[i] = <<>>))
        => (self = NoCollator /\ templ.tag # "ok")

\* C17: every labeled batch that collate returns has had its length compared
\* with the head-index length.
C17_AlignmentChecked == Labeled => asserted

\* C19: once the collator is built no step changes it (prompt_ids,
\* prompt_head_inds, num_cols, max_column_len, col_tok), and a get_templates
\* call returns what the earlier get_templates calls returned.
C19_TemplateStateImmutable ==
    [][pc = "ready" => /\ self' = self
                       /\ max_column_len' = max_column_len
                       /\ (TemplatesCalled => templ' = templ)]_vars

C19_Witness ==
    /\ pc = "ready" /\ TemplatesOk /\ Labeled
    /\ self.num_cols >= 2
    /\ Len(self.prompt_head_inds[1]) >= 1

\* the number of head positions chunk i gives: its token count, one fewer
\* for chunk 0 (the BOS position is dropped)
ChunkHeads(i) == Len(tokenizer(prompt[i])) - (IF i = 1 THEN 1 ELSE 0)

\* chunk0-heads, col1-heads, chunk1-heads, ..., colN-heads, chunkN-heads
ExpectedHeadInds ==
    Flatten(Flatten([i \in 1..self.num_cols |->
                        << [j \in 1..ChunkHeads(i) |-> 0],
                           [j \in 1..self.max_column_len |-> i] >>])
            \o << [j \in 1..ChunkHeads(self.num_cols + 1) |-> 0] >>)

\* C22: the head_inds of a returned tuple is the concatenation of the zeros
\* of chunk 0 (one fewer than its tokens), the max_column_len copies of 1,
\* the zeros of chunk 1, ..., the copies of N, the zeros of chunk N; with N=1,
\* chunks of 2 and 3 tokens and max_column_len = 2 it is [0,1,1,0,0,0].
C22_HeadIndsInterleaved ==
    TemplatesOk =>
        /\ templ.head_inds = ExpectedHeadInds
        /\ (/\ self.num_cols = 1 /\ self.max_column_len = 2
            /\ Len(self.prompt_ids[1]) = 2 /\ Len(self.prompt_ids[2]) = 3)
              => templ.head_inds = <<0, 1, 1, 0, 0, 0>>

C22_Witness ==
    /\ TemplatesOk
    /\ self.num_cols = 1 /\ self.max_column_len = 2
    /\ Len(self.prompt_ids[1]) = 2 /\ Len(self.prompt_ids[2]) = 3
    /\ templ.head_inds = <<0, 1, 1, 0, 0, 0>>

\* C23: every head index is in 0..N, and for each column k the positions with
\* head index k are max_column_len in number and contiguous, the columns
\* coming in increasing order.
C23_ColumnRuns ==
    TemplatesOk =>
        LET h == templ.head_inds IN
        /\ \A p \in 1..Len(h) : h[p] \in 0..self.num_cols
        /\ \A k \in 1..self.num_cols :
              LET P == {p \in 1..Len(h) : h[p] = k} IN
              /\ Cardinality(P) = self.max_column_len
              /\ \A p, q \in P : \A r \in p..q : h[r] = k
        /\ \A p, q \in 1..Len(h) : (p < q /\ h[p] > 0 /\ h[q] > 0) => h[p] <= h[q]

C23_Witness ==
    /\ TemplatesOk /\ self.num_cols >= 2 /\ self.max_column_len >= 3
    /\ \E p \in 2..(Len(templ.head_inds) - 1) :
          /\ templ.head_inds[p] = 0
          /\ templ.head_inds[p - 1] = 1 /\ templ.head_inds[p + 1] = 2

\* C24: in every labeled batch the span of every row and column is exactly
\* max_column_len tokens wide: the tokens of the value without any special
\* token, cut after max_column_len tokens, then the pad id up to the width;
\* the next chunk starts right after it.
C24_SpanWidth ==
    Labeled =>
        \A b \in 1..Len(instances) : \A k \in 1..self.num_cols :
            LET toks == tokenizer(instances[b].cols[k])
                start == SpanStart(k)
            IN  /\ \A j \in 1..self.max_column_len :
                      data_dict.labels[b][start + j - 1] =
                          IF j <= Len(toks) THEN toks[j] ELSE pad_token_id
                /\ data_dict.labels[b][start + self.max_column_len] = self.col_tok

C24_Witness ==
    /\ Labeled /\ self.max_column_len = 2
    /\ \E b \in 1..Len(instances) : \E k, m \in 1..self.num_cols :
          /\ Len(tokenizer(instances[b].cols[k])) > self.max_column_len
          /\ Len(tokenizer(instances[b].cols[m])) < self.max_column_len

\* C25: the mask table of the collator has one row per column (chunks minus
\* one) and one boolean entry per vocabulary entry, row k is true exactly
\* where the vector loaded for column k is 1, and get_templates returns that
\* table. (Under SpecBuild.)
C25_VocabMaskRows ==
    pc = "ready" =>
        /\ Len(self.vocab_masks) = Len(prompt) - 1
        /\ \A k \in 1..Len(self.vocab_masks) :
              /\ Len(self.vocab_masks[k]) = VocabSize
              /\ \A v \in 1..VocabSize :
                    /\ self.vocab_masks[k][v] \in BOOLEAN
                    /\ self.vocab_masks[k][v] <=> (vocab_masks[k][v] = 1)
        /\ TemplatesOk => templ.vocab_masks = self.vocab_masks

C25_Witness ==
    /\ pc = "ready" /\ TemplatesOk
    /\ self.num_cols >= 2
    /\ self.vocab_masks[1] # self.vocab_masks[2]
    /\ templ.vocab_masks[2][1] /\ ~templ.vocab_masks[2][2]

\* C28: a construction leaves the caller's prompt list as it was, and the
\* collator built second from the same list has the prompt_ids of the first
\* and gives the same templates. (Under SpecRepeat.)
C28_ConstructionRepeatable ==
    [][/\ (pc = "new" /\ pc' = "ready") => prompt' = prompt
       /\ (pc = "ready" /\ pc' = "rebuilt") =>
              /\ prompt' = prompt
              /\ self'.prompt_ids = self.prompt_ids
              /\ get_templates(self') = get_templates(self)]_vars

----------------------------------------------------------------------------
(* Properties of the value matcher, under SpecMatch *)

Matched == pc = "matched"
OptionTok(i) == tokenizer_padded(options_str[i], max_column_len)
OptionSim(i) == sim2(gen_span, OptionTok(i))

\* C9: the prediction is the candidate of maximal cosine similarity to the
\* span, and among the candidates of maximal similarity the first one.
C9_FirstMaximal ==
    Matched =>
        \E i \in 1..Len(options_str) :
            /\ pred = options_str[i]
            /\ \A j \in 1..Len(options_str) : ~sim_gt(OptionSim(j), OptionSim(i))
            /\ \A j \in 1..(i - 1) : sim_gt(OptionSim(i), OptionSim(j))

C9_Witness ==
    /\ Matched /\ Len(options_str) >= 3
    /\ pred = options_str[2]
    /\ ~sim_gt(OptionSim(2), OptionSim(3)) /\ ~sim_gt(OptionSim(3), OptionSim(2))

\* C10: when some candidate's padded token vector equals the span, the
\* prediction is a candidate whose padded token vector equals the span.
C10_ExactMatchWins ==
    (Matched /\ \E i \in 1..Len(options_str) : OptionTok(i) = gen_span) =>
        tokenizer_padded(pred, max_column_len) = gen_span

----------------------------------------------------------------------------
(* The generation loop: sample() of qlora.py and the script sample.py *)

batch_size == 100

\* the most full batches the reference table holds
MaxFullBatches == 1

\* real.shape[0]: around the multiples of batch_size
SampleCounts ==
    {0, 1, batch_size - 1}
        \cup { q * batch_size : q \in 1..MaxFullBatches }
        \cup { MaxFullBatches * batch_size + 1 }

None == <<"None">>

\* the reference table `real`, column major: real[i][r] is row r of column i
RefValues == << <<"RED">>, <<"BLUE", "RED">>, <<"RED", "DARK">> >>
RefTables ==
    { [i \in 1..n |-> [r \in 1..m |-> RefValues[((r + i) % Len(RefValues)) + 1]]] :
      n \in 1..MaxCols, m \in SampleCounts }

num_samples == Len(real[1])
\* the full batches only
num_batches_floor == num_samples \div batch_size

\* len(range(num_samples//batch_size + 1))
num_batches == (num_samples \div batch_size) + 1

\* Series.unique(): the distinct values in order of first occurrence
unique(xs) ==
    LET first == { j \in 1..Len(xs) : \A q \in 1..(j - 1) : xs[q] # xs[j] }
    IN  [k \in 1..Cardinality(first) |->
            xs[CHOOSE j \in first : Cardinality({ q \in first : q < j }) = k - 1]]

\* collator(batch_size*[{'length': 0}]) for the prompt of an n-column table
seed_inputs(n, mcl) ==
    collate(new_collator([i \in 1..(n + 1) |-> ChunkText(i)], mcl, MaskTable(n, 1)),
            [r \in 1..batch_size |-> [length |-> 0, cols |-> <<>>]])

\* what model.generate may return: for each row of the inputs n spans of mcl
\* tokens, the rows alternating between two generated rows
GenTokens ==
    << <<TokId("RED")>>, <<TokId("BLUE"), TokId("RED")>>, <<TokId("RED"), TokId("DARK")>> >>
GenRow(n, mcl, g) ==
    [i \in 1..n |-> pad_max_length(GenTokens[((g + i) % Len(GenTokens)) + 1], mcl)]
GenBatches(inp, n, mcl) ==
    { [r \in 1..Len(inp.input_ids) |-> GenRow(n, mcl, ((r + h) % 2) + 1)] : h \in 0..1 }

\* model.generate(**inputs): sample.py passes a set, not a mapping
generate_raises == script = "sample.py"

\* the rows of the batch matched in reverse order
preds_col_reversed(toks, i, opts, mcl) ==
    [r \in 1..Len(toks) |-> match(toks[Len(toks) + 1 - r][i], opts, mcl)]

\* options_str[cosine_similarity(batch_col_toks[:, i, :], options).argmax(axis=1)]
preds_col(toks, i, opts, mcl) ==
    [r \in 1..Len(toks) |-> match(toks[r][i], opts, mcl)]

\* the list replaced by the new predictions
overwrite(lst, items) == items

\* list.extend
extend(lst, items) == lst \o items

MaxLen(ls) ==
    LET RECURSIVE mx(_)
        mx(j) == IF j = 0 THEN 0
                 ELSE IF Len(ls[j]) > mx(j - 1) THEN Len(ls[j]) ELSE mx(j - 1)
    IN  mx(Len(ls))

\* Dataset.from_pandas(pd.DataFrame(preds).T): one row per entry of the longest
\* list, the shorter lists filled with None
table_of(ls) ==
    [j \in 1..MaxLen(ls) |->
        [i \in 1..Len(ls) |-> IF j <= Len(ls[i]) THEN ls[i][j] ELSE None]]

\* an exception leaves the loop to a retry of the batch
retry_batch == "loop"

\* no handler encloses the loop: an exception ends the run
uncaught == "aborted"

InitSample ==
    /\ pc = "loop"
    /\ max_column_len \in 1..MaxColumnLen
    /\ CollatorIdle /\ MatchIdle /\ DatasetIdle /\ ModuleIdle /\ CallbackIdle
    /\ script \in {"qlora.py", "sample.py"}
    /\ real \in RefTables
    /\ inputs = seed_inputs(Len(real), max_column_len)
    /\ batch = 0
    /\ col = 0
    /\ batch_col_toks = <<>>
    /\ preds = [i \in 1..Len(real) |-> <<>>]
    /\ disk = NoTable
    /\ generated = <<>>
    /\ error = "none"

Generate ==
    /\ pc = "loop" /\ batch < num_batches /\ ~generate_raises
    /\ \E toks \in GenBatches(inputs, Len(real), max_column_len) :
          /\ batch_col_toks' = toks
          /\ generated' = generated \o toks
    /\ pc' = "match"
    /\ col' = 0
    /\ UNCHANGED <<script, real, inputs, batch, preds, disk, error, max_column_len>>
    /\ UNCHANGED <<collator_vars, match_vars, config_vars, dataset_vars, module_vars, callback_vars>>

\* generation fails: always in sample.py (TypeError), in qlora.py when the
\* model does (out of memory, ...)
GenerateFails ==
    /\ pc = "loop" /\ batch < num_batches
    /\ error' = IF generate_raises THEN "TypeError" ELSE "RuntimeError"
    /\ pc' = uncaught
    /\ UNCHANGED <<script, real, inputs, batch, col, batch_col_toks, preds, disk,
                   generated, max_column_len>>
    /\ UNCHANGED <<collator_vars, match_vars, config_vars, dataset_vars, module_vars, callback_vars>>

\* one pass of the loop over the columns: match, extend, save
MatchColumn ==
    /\ pc = "match"
    /\ \E i \in {col + 1} : \E opts \in {unique(real[col + 1])} :
           IF opts = <<>>
           THEN /\ error' = "ValueError"
                /\ pc' = uncaught
                /\ UNCHANGED <<batch, col, preds, disk>>
           ELSE /\ \E extended \in {extend(preds[i], preds_col(batch_col_toks, i, opts,
                                                                max_column_len))} :
                      /\ preds' = [preds EXCEPT ![i] = extended]
                      /\ disk' = table_of([preds EXCEPT ![i] = extended])
                /\ col' = i
                /\ pc' = IF i = Len(real) THEN "loop" ELSE "match"
                /\ batch' = IF i = Len(real) THEN batch + 1 ELSE batch
                /\ error' = "none"
    /\ UNCHANGED <<script, real, inputs, batch_col_toks, generated, max_column_len>>
    /\ UNCHANGED <<collator_vars, match_vars, config_vars, dataset_vars, module_vars, callback_vars>>

\* tokenizing the options or writing the table fails
MatchFails ==
    /\ pc = "match"
    /\ error' = "RuntimeError"
    /\ pc' = uncaught
    /\ UNCHANGED <<script, real, inputs, batch, col, batch_col_toks, preds, disk,
                   generated, max_column_len>>
    /\ UNCHANGED <<collator_vars, match_vars, config_vars, dataset_vars, module_vars, callback_vars>>

Finish ==
    /\ pc = "loop" /\ batch = num_batches
    /\ pc' = "done"
    /\ UNCHANGED <<sample_vars, max_column_len>>
    /\ UNCHANGED <<collator_vars, match_vars, config_vars, dataset_vars, module_vars, callback_vars>>

NextSample == Generate \/ GenerateFails \/ MatchColumn \/ MatchFails \/ Finish

SpecSample == InitSample /\ [][NextSample]_vars

\* the script runs on: a call that can return does, a call that must raise
\* does, and the loop ends when its range is exhausted
SpecSampleFair ==
    /\ SpecSample
    /\ WF_vars(Generate)
    /\ WF_vars(GenerateFails /\ generate_raises)
    /\ WF_vars(MatchColumn)
    /\ WF_vars(Finish)

----------------------------------------------------------------------------
(* Properties of the generation loop, under SpecSample *)

Written == disk # NoTable

\* the predictions stored for column i: the cells of column i that are not None
StoredColumn(t, i) ==
    LET c == [j \in 1..Len(t) |-> t[j][i]]
    IN  SelectSeq(c, LAMBDA v : v # None)

IsPrefix(a, b) == Len(a) <= Len(b) /\ a = SubSeq(b, 1, Len(a))

\* C12: every table written to storage holds a value in every cell, that is,
\* every column holds the same number of predictions.
C12_StoredTableComplete ==
    Written => \A j \in 1..Len(disk) : \A i \in 1..Len(real) : disk[j][i] # None

\* C13: every step leaves, for every column, the predictions stored before
\* as a prefix of the predictions stored after.
C13_StoredTableExtends ==
    [][\A i \in 1..Len(real) :
          Written => /\ disk' # NoTable
                     /\ IsPrefix(StoredColumn(disk, i), StoredColumn(disk', i))]_vars

C13_Witness ==
    /\ Written /\ batch >= 1 /\ pc = "match" /\ col >= 1
    /\ Len(StoredColumn(disk, 1)) = (batch + 1) * batch_size
    /\ disk[1][1] # disk[batch * batch_size + 1][1]

\* C14: after t completed iterations every column holds t * batch_size
\* values, entry j of every column is the match of the j-th generated sample's
\* span for that column, and every value is one of the column's distinct
\* reference values.
C14_OneValuePerSampleAndColumn ==
    pc \in {"loop", "done"} =>
        \A i \in 1..Len(real) : \E opts \in {unique(real[i])} :
            /\ Len(preds[i]) = batch * batch_size
            /\ Len(generated) = batch * batch_size
            /\ \A j \in 1..Len(preds[i]) :
                  /\ preds[i][j] = match(generated[j][i], opts, max_column_len)
                  /\ \E r \in 1..num_samples : preds[i][j] = real[i][r]

C14_Witness ==
    /\ pc = "done" /\ batch >= 2 /\ Len(real) >= 2
    /\ generated[1] # generated[2]
    /\ preds[1][1] # preds[1][2]

\* C18: a failure leaves the stored table and the accumulated predictions as
\* they were, and no step follows it: no later iteration, no retry.
C18_FailureAborts ==
    [][/\ error = "none"
       /\ (error' # "none" => /\ disk' = disk /\ preds' = preds /\ batch' = batch
                              /\ pc' = "aborted")]_vars

C18_Witness == error # "none" /\ Written /\ batch >= 1

----------------------------------------------------------------------------
(* local_dataset: the loader chosen by the extension of dataset_name *)

\* a file or directory name as <<stem, extension>>
Stems == {"adult", "may8", "synthetic"}
Extensions == {".json", ".jsonl", ".csv", ".tsv", ".dat", ".txt"}

endswith(name, ext) == name[2] = ext

dataset_dict_json == <<"dataset_dict", ".json">>

\* what save_to_disk leaves in the directory of a DatasetDict: the marker
\* file, one directory per split, possibly further .json files
SplitDirs ==
    { <<"train", "">>, <<"eval", "">>, <<"test", "">>, <<"prompt", "">>,
      <<"vocab_masks", "">> }
DatasetDictDirs ==
    { {dataset_dict_json} \cup S \cup J :
      S \in SUBSET SplitDirs, J \in SUBSET { <<"README", ".json">> } }

\* what save_to_disk leaves in the directory of a single Dataset
DatasetDir == { <<"state", ".json">>, <<"dataset_info", ".json">>, <<"data", ".arrow">> }

\* directories that hold neither
OtherDirs == { {}, { <<"train", "">> } }

ErrorOf(t) == [tag |-> t, keys |-> {}, split_of |-> <<>>]

\* a single Dataset read from path
DatasetAt(path) == [tag |-> "Dataset", keys |-> {}, split_of |-> path]

\* load_from_disk on a directory without dataset_dict.json
load_from_disk(path, entries) ==
    IF entries = DatasetDir THEN DatasetAt(path) ELSE ErrorOf("FileNotFoundError")

\* the dataset handed back as it was loaded
not_split(ds) == ds

\* Dataset.train_test_split: a DatasetDict with the keys train and test
train_test_split(ds) ==
    [tag |-> "DatasetDict",
     keys |-> { <<"train", "">>, <<"test", "">> },
     split_of |-> ds.split_of]

\* for f in os.listdir(dataset_name): if f.endswith('.json'): continue
non_json_entries(entries) == { f \in entries : ~endswith(f, ".json") }

local_dataset(name, entries) ==
    IF endswith(name, ".json") \/ endswith(name, ".jsonl")
           \/ endswith(name, ".csv") \/ endswith(name, ".tsv")
    THEN train_test_split(DatasetAt(name))
    ELSE IF endswith(name, ".dat")
    THEN IF dataset_dict_json \in entries
         THEN [tag |-> "DatasetDict",
               keys |-> non_json_entries(entries),
               split_of |-> <<>>]
         ELSE LET full == load_from_disk(name, entries)
              IN  IF full.tag = "Dataset" THEN train_test_split(full) ELSE full
    ELSE ErrorOf("ValueError")

InitData ==
    /\ pc = "load"
    /\ max_column_len = 1
    /\ CollatorIdle /\ MatchIdle /\ SampleIdle /\ ModuleIdle /\ CallbackIdle
    /\ dataset_name \in Stems \X Extensions
    /\ listdir \in IF endswith(dataset_name, ".dat")
                  THEN DatasetDictDirs \cup {DatasetDir} \cup OtherDirs
                  ELSE { {} }
    /\ full_dataset = [tag |-> "none"]

LocalDataset ==
    /\ pc = "load"
    /\ full_dataset' = local_dataset(dataset_name, listdir)
    /\ pc' = "loaded"
    /\ UNCHANGED <<dataset_name, listdir, max_column_len>>
    /\ UNCHANGED <<collator_vars, match_vars, config_vars, sample_vars, module_vars, callback_vars>>

NextData == LocalDataset

SpecData == InitData /\ [][NextData]_vars

----------------------------------------------------------------------------
(* Properties of local_dataset, under SpecData *)

Loaded == pc = "loaded"
FlatDat ==
    /\ endswith(dataset_name, ".dat")
    /\ dataset_dict_json \notin listdir
    /\ listdir = DatasetDir

\* C20 as stated: a .dat directory without dataset_dict.json comes back as
\* one Dataset and not as a dictionary of splits; one with dataset_dict.json
\* comes back as a dictionary with one key per entry that is no .json file.
C20_FlatDirSingleSplit ==
    (Loaded /\ endswith(dataset_name, ".dat")) =>
        /\ FlatDat => full_dataset.tag = "Dataset"
        /\ dataset_dict_json \in listdir =>
              /\ full_dataset.tag = "DatasetDict"
              /\ full_dataset.keys = { f \in listdir : f[2] # ".json" }

\* C20 as amended: a .dat directory without dataset_dict.json is loaded as
\* one Dataset and comes back as the train/test dictionary of its
\* train_test_split; one with dataset_dict.json comes back as a dictionary
\* with one key per entry that is no .json file, none of them split.
C20_FlatDirLoadedThenSplit ==
    (Loaded /\ endswith(dataset_name, ".dat")) =>
        /\ FlatDat =>
              /\ full_dataset.tag = "DatasetDict"
              /\ full_dataset.keys = { <<"train", "">>, <<"test", "">> }
              /\ full_dataset.split_of = dataset_name
        /\ dataset_dict_json \in listdir =>
              /\ full_dataset.tag = "DatasetDict"
              /\ full_dataset.keys = { f \in listdir : f[2] # ".json" }
              /\ full_dataset.split_of = <<>>

C20_Witness ==
    /\ Loaded /\ FlatDat
    /\ full_dataset.tag = "DatasetDict"
    /\ full_dataset.split_of = dataset_name

----------------------------------------------------------------------------
(* make_data_module: load the dataset, pick the splits and the collator.
   dataset_format is 'mlm', its default, for which format_dataset does nothing;
   max_train_samples and max_eval_samples are None, their default *)

Key(k) == <<k, "">>

Flags ==
    [do_train : BOOLEAN, do_eval : BOOLEAN, do_predict : BOOLEAN,
     do_generate : BOOLEAN, eval_dataset_size : {0, 1024}]

NoModule ==
    [tag |-> "none", data_collator |-> "none", train_dataset |-> "none",
     eval_dataset |-> "none", predict_dataset |-> "none"]

Raised(t) == [NoModule EXCEPT !.tag = t]

\* load_data: os.path.exists(dataset_name), then local_dataset
load_data(ex, name, entries) ==
    IF ex THEN local_dataset(name, entries) ELSE ErrorOf("NotImplementedError")

\* the keys of `dataset` after the eval branch: dataset['train'].train_test_split
\* replaces the loaded DatasetDict when evaluation has no 'eval' split to use
keys_after_eval(keys, a) ==
    IF (a.do_eval \/ a.do_predict) /\ Key("eval") \notin keys
           /\ a.eval_dataset_size > 0 /\ Key("train") \in keys
    THEN { Key("train"), Key("test") }
    ELSE keys

\* eval_dataset after the eval branch; "unbound" when no assignment ran
eval_dataset_of(keys, a) ==
    IF ~(a.do_eval \/ a.do_predict) THEN "unbound"
    ELSE IF Key("eval") \in keys THEN "eval"
    ELSE IF a.eval_dataset_size > 0
         THEN IF Key("train") \in keys THEN "test of train" ELSE "KeyError"
    ELSE "unbound"

\* dict.get: a missing key gives None
get(keys, k) == IF Key(k) \in keys THEN k ELSE "None"

\* dataset[k]: a missing key raises KeyError
getitem(keys, k) == IF Key(k) \in keys THEN k ELSE "KeyError"

make_data_module(ex, name, entries, a) ==
    LET dataset == load_data(ex, name, entries)
        ev == eval_dataset_of(dataset.keys, a)
        keys == keys_after_eval(dataset.keys, a)
        train == IF a.do_train \/ a.do_generate THEN getitem(keys, "train") ELSE "unbound"
        mhlm == Key("prompt") \in keys
    IN  IF dataset.tag # "DatasetDict" THEN Raised(dataset.tag)
        ELSE IF ev = "KeyError" \/ train = "KeyError" THEN Raised("KeyError")
        ELSE IF mhlm /\ getitem(keys, "vocab_masks") = "KeyError" THEN Raised("KeyError")
        ELSE IF (a.do_eval \/ a.do_predict) /\ ev = "unbound"
             THEN Raised("UnboundLocalError")
        ELSE [tag |-> "ok",
              data_collator |-> IF mhlm THEN "DataCollatorForMHLM"
                                ELSE "DataCollatorForCausalLM",
              train_dataset |-> IF a.do_train \/ a.do_generate THEN train ELSE "None",
              eval_dataset |-> IF a.do_eval THEN ev ELSE "None",
              predict_dataset |-> IF a.do_predict THEN ev ELSE "None"]

InitModule ==
    /\ pc = "args"
    /\ max_column_len = 1
    /\ CollatorIdle /\ MatchIdle /\ SampleIdle /\ CallbackIdle
    /\ exists \in BOOLEAN
    /\ dataset_name \in {"adult"} \X Extensions
    /\ listdir \in IF endswith(dataset_name, ".dat") /\ exists
                  THEN DatasetDictDirs \cup {DatasetDir} \cup OtherDirs
                  ELSE { {} }
    /\ args \in Flags
    /\ full_dataset = [tag |-> "none"]
    /\ data_module = NoModule

MakeDataModule ==
    /\ pc = "args"
    /\ full_dataset' = load_data(exists, dataset_name, listdir)
    /\ data_module' = make_data_module(exists, dataset_name, listdir, args)
    /\ pc' = "module"
    /\ UNCHANGED <<dataset_name, listdir, exists, args, max_column_len>>
    /\ UNCHANGED <<collator_vars, match_vars, config_vars, sample_vars, callback_vars>>

NextModule == MakeDataModule

SpecModule == InitModule /\ [][NextModule]_vars

----------------------------------------------------------------------------
(* Properties of make_data_module, under SpecModule *)

ModuleMade == pc = "module"
SupportedExtensions == {".json", ".jsonl", ".csv", ".tsv", ".dat"}

\* C21: a dataset name with an unsupported extension makes the loading end in
\* an error with no dataset, and a loaded dataset without the `train` split
\* makes make_data_module end in an error when do_train or do_generate is set.
C21_LoadingErrors ==
    ModuleMade =>
        /\ dataset_name[2] \notin SupportedExtensions =>
              /\ full_dataset.tag = IF exists THEN "ValueError" ELSE "NotImplementedError"
              /\ full_dataset.keys = {}
              /\ data_module = Raised(full_dataset.tag)
        /\ (/\ full_dataset.tag = "DatasetDict"
            /\ <<"train", "">> \notin full_dataset.keys
            /\ (args.do_train \/ args.do_generate)) =>
              /\ data_module.tag \in {"KeyError"}
              /\ data_module.data_collator = "none"

C21_Witness ==
    /\ ModuleMade /\ exists
    /\ full_dataset.tag = "DatasetDict"
    /\ <<"train", "">> \notin full_dataset.keys
    /\ <<"prompt", "">> \in full_dataset.keys
    /\ <<"vocab_masks", "">> \in full_dataset.keys
    /\ args.do_generate /\ ~args.do_train /\ ~args.do_eval /\ ~args.do_predict
    /\ data_module.tag = "KeyError"

\* C26: every data module that is returned holds the multihead cloze collator
\* when the loaded dataset has a `prompt` sub-table and the causal-LM
\* collator when it has none.
C26_CollatorFollowsPromptTable ==
    (ModuleMade /\ data_module.tag = "ok") =>
        data_module.data_collator =
            IF <<"prompt", "">> \in full_dataset.keys THEN "DataCollatorForMHLM"
            ELSE "DataCollatorForCausalLM"

----------------------------------------------------------------------------
(* SavePeftModelCallback and get_last_checkpoint: the files of output_dir.
   A path is [dir, nest, file]: dir 0 is output_dir itself and dir n its
   checkpoint-n folder, nest counts the adapter_model folders in between *)

MaxSteps == 3

Path(d, n, f) == [dir |-> d, nest |-> n, file |-> f]

completed_file == Path(0, 0, "completed")

\* checkpoint_folder of save_model: under the best checkpoint when there is
\* one, else the folder of the current step
checkpoint_folder(st) ==
    IF st.best_model_checkpoint # 0
    THEN [dir |-> st.best_model_checkpoint, nest |-> 1]
    ELSE [dir |-> st.global_step, nest |-> 0]

\* save_model: save_pretrained into checkpoint_folder/adapter_model, then
\* remove checkpoint_folder/pytorch_model.bin if it is there
save_model(files, st) ==
    LET folder == checkpoint_folder(st)
    IN  (files \cup { Path(folder.dir, folder.nest, "adapter_model") })
            \ { Path(folder.dir, folder.nest, "pytorch_model.bin") }

\* touch(join(args.output_dir, 'completed')), the first statement of on_train_end
touch(files) == files \cup {completed_file}

\* get_last_checkpoint: (step of the last checkpoint folder or 0, is_completed)
get_last_checkpoint(files) ==
    LET steps == { f.dir : f \in { g \in files : g.dir > 0 } }
        max_step == IF steps = {} THEN 0
                    ELSE CHOOSE m \in steps : \A n \in steps : n <= m
    IN  <<max_step, completed_file \in files>>

InitCallback ==
    /\ pc = "training"
    /\ max_column_len = 1
    /\ CollatorIdle /\ MatchIdle /\ SampleIdle /\ DatasetIdle /\ ModuleIdle
    /\ fs = {}
    /\ state = [global_step |-> 0, best_model_checkpoint |-> 0]
    /\ final_save = "none"

\* the Trainer reaches a save step: it writes the folder of the step and may
\* name it the best checkpoint
TrainerCheckpoint ==
    /\ pc = "training" /\ state.global_step < MaxSteps
    /\ \E n \in (state.global_step + 1)..MaxSteps, bin \in BOOLEAN, best \in BOOLEAN :
          /\ state' = [global_step |-> n,
                       best_model_checkpoint |->
                           IF best THEN n ELSE state.best_model_checkpoint]
          /\ fs' = fs \cup {Path(n, 0, "trainer_state.json")}
                      \cup (IF bin THEN {Path(n, 0, "pytorch_model.bin")} ELSE {})
    /\ pc' = "on_save"
    /\ UNCHANGED <<final_save, max_column_len>>
    /\ UNCHANGED <<collator_vars, match_vars, config_vars, sample_vars, dataset_vars,
                   module_vars>>

OnSave ==
    /\ pc = "on_save"
    /\ fs' = save_model(fs, state)
    /\ pc' = "training"
    /\ UNCHANGED <<state, final_save, max_column_len>>
    /\ UNCHANGED <<collator_vars, match_vars, config_vars, sample_vars, dataset_vars,
                   module_vars>>

\* on_train_end when save_pretrained returns
OnTrainEnd ==
    /\ pc = "training"
    /\ fs' = save_model(touch(fs), state)
    /\ final_save' = "done"
    /\ pc' = "ended"
    /\ UNCHANGED <<state, max_column_len>>
    /\ UNCHANGED <<collator_vars, match_vars, config_vars, sample_vars, dataset_vars,
                   module_vars>>

\* on_train_end when save_pretrained raises (disk full, ...): nothing catches it
OnTrainEndSaveFails ==
    /\ pc = "training"
    /\ fs' = touch(fs)
    /\ final_save' = "failed"
    /\ pc' = "ended"
    /\ UNCHANGED <<state, max_column_len>>
    /\ UNCHANGED <<collator_vars, match_vars, config_vars, sample_vars, dataset_vars,
                   module_vars>>

NextCallback == TrainerCheckpoint \/ OnSave \/ OnTrainEnd \/ OnTrainEndSaveFails

SpecCallback == InitCallback /\ [][NextCallback]_vars

\* C27: the sentinel `completed` is in output_dir, and get_last_checkpoint
\* reports the run as completed, only if the final adapter save has completed.
C27_SentinelOnlyAfterSave ==
    (completed_file \in fs \/ get_last_checkpoint(fs)[2]) => final_save = "done"

----------------------------------------------------------------------------
(* Termination of the generation loop, under SpecSampleFair *)

\* C29: a run in which no call fails ends, after floor(num_samples / 100) + 1
\* iterations of batch_size = 100 samples; the seed inputs stay what they were
\* before the loop and every generate call returns one row per row of them;
\* at the end every column, in memory and in the stored table, holds
\* 100 * (floor(num_samples / 100) + 1) values, at least num_samples.
C29_LoopTerminates ==
    /\ <>(pc = "done" \/ error # "none")
    /\ [](pc = "done" =>
            /\ batch_size = 100
            /\ batch = (Len(real[1]) \div 100) + 1
            /\ \A i \in 1..Len(real) :
                  /\ Len(preds[i]) = 100 * ((Len(real[1]) \div 100) + 1)
                  /\ Len(preds[i]) >= Len(real[1])
            /\ Len(disk) = 100 * ((Len(real[1]) \div 100) + 1)
            /\ \A j \in 1..Len(disk) : \A i \in 1..Len(real) : disk[j][i] = preds[i][j])
    /\ [][/\ inputs' = inputs
          /\ (pc = "loop" /\ pc' = "match") =>
                /\ Len(batch_col_toks') = Len(inputs.input_ids)
                /\ Len(inputs.input_ids) = 100]_vars

C29_Witness ==
    /\ pc = "done" /\ error = "none"
    /\ Len(real[1]) = batch_size + 1
    /\ batch = 2
    /\ Len(real) >= 2 /\ Len(preds[2]) = 2 * batch_size

====
